---- MODULE Spec2Model ----
(***************************************************************************)
(* A model of MarketAnalyzer (src/market_analyzer.py): the per-provider    *)
(* fetch and parse, the combination step of fetch_data, the market_data    *)
(* attribute, and get_trend_analysis.                                      *)
(*                                                                         *)
(* A DataFrame is the sequence of its rows in index order of appearance.   *)
(* The five columns open/high/low/close/volume of a row are handled alike  *)
(* by every line of the source (one astype(float) over all of them, one    *)
(* copy of each array), so a row carries one price field, close, and one   *)
(* flag, numeric, telling whether its fields are numeric.                   *)
(***************************************************************************)
EXTENDS Integers, Sequences, FiniteSets, TLC

\* Bounds of the model.
MaxTs == 2
MaxVal == 2
MaxBars == 201
MaxPattern == 2

\* The rolling windows of get_trend_analysis.
Window20 == 20
Window50 == 50
Window200 == 200

VARIABLES
    market_data,      \* self.market_data: the rows of the DataFrame
    payloads,         \* what each provider's endpoint answers (decoded JSON)
    op,               \* the last call: "init", "fetch_data", "get_trend_analysis"
    down,             \* providers whose request raised RequestException in the last fetch_data
    requested,        \* providers _fetch_from_source was called for, in order, in the last fetch_data
    parsed,           \* per provider, what its parser returned or raised in the last fetch_data
    dfs,              \* the list dfs when the loop of fetch_data ended
    merged,           \* what lines 44-46 of fetch_data produced in the last fetch_data
    result,           \* the value the last call returned
    raised,           \* the exception the last call let escape to its caller ("none": it returned)
    prev_market_data, \* market_data when the last call began
    lastSuccess       \* the value returned by the most recent fetch_data that did not return None

vars == <<market_data, payloads, op, down, requested, parsed, dfs, merged,
          result, raised, prev_market_data, lastSuccess>>

----------------------------------------------------------------------------
\* Python values.

None == [tag |-> "None"]
DataFrame(rows) == [tag |-> "df", rows |-> rows]
Raise(exc) == [tag |-> "raise", exc |-> exc]
NotCalled == [tag |-> "not_called"]
EmptyFrame == DataFrame(<<>>)
EmptyDict == [tag |-> "dict", items |-> <<>>]

IsFrame(v) == v.tag = "df"
IsRaise(v) == v.tag = "raise"
IsNonEmptyFrame(v) == IsFrame(v) /\ v.rows # <<>>

\* self.data_sources
data_sources == <<"alpha_vantage", "yahoo_finance">>
Sources == {data_sources[i] : i \in 1..Len(data_sources)}

Symbols == {"AAPL", "MSFT"}

----------------------------------------------------------------------------
\* Sequences of rows.

Timestamps == 1..MaxTs
Closes == 1..MaxVal

NumericRow(t, c) == [ts |-> t, close |-> c, numeric |-> TRUE]
BadRow(t) == [ts |-> t, close |-> 0, numeric |-> FALSE]
RowsAt(t) == {NumericRow(t, c) : c \in Closes} \cup {BadRow(t)}

RECURSIVE SetToAscending(_)
SetToAscending(S) ==
    IF S = {} THEN <<>>
    ELSE LET m == CHOOSE x \in S : \A y \in S : x <= y
         IN  <<m>> \o SetToAscending(S \ {m})

Reverse(s) == [i \in 1..Len(s) |-> s[Len(s) + 1 - i]]

TsOf(rows) == {rows[i].ts : i \in 1..Len(rows)}

StrictlyAscending(rows) ==
    \A i \in 1..(Len(rows) - 1) : rows[i].ts < rows[i + 1].ts

AllNumeric(rows) == \A i \in 1..Len(rows) : rows[i].numeric

\* The daily bars a payload can carry: one row for each date of a set of
\* dates, listed oldest first or newest first.
RowSeqs ==
    UNION {
        LET dates == SetToAscending(T)
        IN  UNION { { [i \in 1..Len(dates) |-> f[dates[i]]],
                      Reverse([i \in 1..Len(dates) |-> f[dates[i]]]) }
                    : f \in { g \in [T -> UNION {RowsAt(t) : t \in T}] :
                                \A t \in T : g[t].ts = t } }
        : T \in SUBSET Timestamps }

\* The decoded JSON documents of the two endpoints, by shape.
AlphaPayloads ==
    {[shape |-> "no_key", rows |-> <<>>]}
        \cup {[shape |-> "series", rows |-> r] : r \in RowSeqs}

YahooShapes == {"no_chart", "no_result", "result_null", "result_empty",
                "no_timestamp", "no_quote"}

YahooPayloads ==
    {[shape |-> s, rows |-> <<>>] : s \in YahooShapes}
        \cup {[shape |-> "series", rows |-> r] : r \in RowSeqs}

PayloadsOf(source) ==
    IF source = "alpha_vantage" THEN AlphaPayloads ELSE YahooPayloads

----------------------------------------------------------------------------
\* _parse_alpha_response (lines 97-116)

_parse_alpha_response(data) ==
    IF data.shape = "no_key" THEN EmptyFrame
    \* line 113: five column names onto the column-less frame of an empty dict
    ELSE IF data.rows = <<>> THEN Raise("ValueError")
    \* line 114: astype(float) over the whole frame
    ELSE IF ~AllNumeric(data.rows) THEN Raise("ValueError")
    ELSE DataFrame(data.rows)

\* _parse_yahoo_response (lines 118-141)

_parse_yahoo_response(data) ==
    CASE data.shape \in {"no_chart", "no_result"} -> EmptyFrame
      [] data.shape = "result_null" -> Raise("TypeError")
      [] data.shape = "result_empty" -> Raise("IndexError")
      [] data.shape \in {"no_timestamp", "no_quote"} -> Raise("KeyError")
      [] OTHER -> DataFrame(data.rows)

Parse(source, data) ==
    IF source = "alpha_vantage" THEN _parse_alpha_response(data)
    ELSE _parse_yahoo_response(data)

----------------------------------------------------------------------------
\* _fetch_from_source (lines 56-95).  dn: the providers whose requests.get
\* raises RequestException; world: the document each endpoint answers.
\* The value is what the call returns, or Raise(e) for an exception that
\* neither except clause (lines 90-95) catches.

_fetch_from_source(symbol, source, dn, world) ==
    IF source \notin {"alpha_vantage", "yahoo_finance"} THEN None
    ELSE IF source \in dn THEN None
    ELSE LET df == Parse(source, world[source])
         IN  IF IsRaise(df)
                 THEN IF df.exc = "KeyError" THEN None ELSE df
             ELSE IF df.rows # <<>> THEN df
             ELSE None

\* What the parser of one provider did in a cycle where it was asked.
ParserRun(source, dn, world) ==
    IF source \in dn THEN NotCalled ELSE Parse(source, world[source])

\* The loop of fetch_data (lines 34-38), from the i-th source on.  exc is the
\* exception that left _fetch_from_source and ended the loop, or "none".
RECURSIVE FetchLoop(_, _, _, _, _)
FetchLoop(symbol, i, acc, dn, world) ==
    IF i > Len(data_sources) THEN acc
    ELSE LET source == data_sources[i]
             df == _fetch_from_source(symbol, source, dn, world)
             asked == [acc EXCEPT !.requested = Append(@, source),
                                  !.parsed[source] = ParserRun(source, dn, world)]
         IN  IF IsRaise(df) THEN [asked EXCEPT !.exc = df.exc]
             ELSE IF IsNonEmptyFrame(df)
                 THEN FetchLoop(symbol, i + 1,
                                [asked EXCEPT !.dfs = Append(@, df.rows)], dn, world)
             ELSE FetchLoop(symbol, i + 1, asked, dn, world)

LoopStart ==
    [dfs |-> <<>>, requested |-> <<>>, exc |-> "none",
     parsed |-> [s \in Sources |-> NotCalled]]

\* pd.concat(dfs) (line 44): the rows of the frames, one frame after the other.
RECURSIVE Concat(_)
Concat(frames) ==
    IF frames = <<>> THEN <<>> ELSE Head(frames) \o Concat(Tail(frames))

\* groupby(index).first().sort_index(): one row for each index value, the
\* first of the rows carrying it, in ascending index order.
FirstAt(rows, t) ==
    rows[CHOOSE i \in 1..Len(rows) :
            rows[i].ts = t /\ \A j \in 1..(i - 1) : rows[j].ts # t]

GroupByFirstSortIndex(rows) ==
    LET index == SetToAscending(TsOf(rows))
    IN  [i \in 1..Len(index) |-> FirstAt(rows, index[i])]

\* Line 46 with the name combined_data in the place of combined_dat.
ReconcileNamed(combined_data) ==
    DataFrame(GroupByFirstSortIndex(combined_data))

\* Line 46: the argument combined_dat.index names no variable, and Python
\* evaluates it before groupby is called.
Reconcile(combined_data) == Raise("NameError")

\* Lines 44-50 with the assignment of line 47 moved before line 46.
MergeStepAssignsFirst(frames, md) ==
    LET combined_data == Concat(frames)
        deduped == Reconcile(combined_data)
    IN  IF IsRaise(deduped)
            THEN [out |-> deduped, market_data |-> combined_data]
        ELSE [out |-> deduped, market_data |-> deduped.rows]

\* Lines 44-50: the combination, the assignment to self.market_data, the
\* returned frame; out is Raise(e) when a line raised before the return.
MergeStep(frames, md) ==
    LET combined_data == Concat(frames)
        deduped == Reconcile(combined_data)
    IN  IF IsRaise(deduped)
            THEN [out |-> deduped, market_data |-> md]
        ELSE [out |-> deduped, market_data |-> deduped.rows]

\* Lines 40-42 returning an empty frame in the place of None.
NoDataReturnsFrame(md) ==
    [ret |-> EmptyFrame, market_data |-> md]

\* Lines 40-42: no source gave a frame.
NoData(md) ==
    [ret |-> None, market_data |-> md]

\* Lines 52-54: every exception raised in the try block is caught, and the
\* call returns None.
ExceptException(exc) == [ret |-> None, raised |-> "none"]

\* fetch_data (lines 22-54).
fetch_data(symbol, dn, world, md) ==
    LET loop == FetchLoop(symbol, 1, LoopStart, dn, world)
        base == [requested |-> loop.requested, parsed |-> loop.parsed,
                 dfs |-> loop.dfs, merged |-> NotCalled, raised |-> "none",
                 ret |-> None, market_data |-> md]
    IN  IF loop.exc # "none"
            THEN [base EXCEPT !.ret = ExceptException(loop.exc).ret,
                              !.raised = ExceptException(loop.exc).raised]
        ELSE IF loop.dfs = <<>>
            THEN [base EXCEPT !.ret = NoData(md).ret,
                              !.market_data = NoData(md).market_data]
        ELSE LET m == MergeStep(loop.dfs, md)
             IN  IF IsRaise(m.out)
                     THEN [base EXCEPT !.merged = m.out,
                                       !.market_data = m.market_data,
                                       !.ret = ExceptException(m.out.exc).ret,
                                       !.raised = ExceptException(m.out.exc).raised]
                 ELSE [base EXCEPT !.merged = m.out,
                                   !.market_data = m.market_data,
                                   !.ret = m.out]

----------------------------------------------------------------------------
\* get_trend_analysis (lines 143-161).

\* A mean is kept as the sum and the count it divides by; NaN is the value
\* rolling() gives where fewer than the window's rows are at hand.
NaN == [defined |-> FALSE, sum |-> 0, n |-> 0]
Mean(total, count) == [defined |-> TRUE, sum |-> total, n |-> count]

RECURSIVE SumCloses(_, _, _)
SumCloses(rows, from, to) ==
    IF from > to THEN 0
    ELSE IF from = to THEN rows[from].close
    ELSE LET mid == (from + to) \div 2
         IN  SumCloses(rows, from, mid) + SumCloses(rows, mid + 1, to)

\* rolling(w) with min_periods = 1: a mean over the rows at hand.
RollingMeanMinPeriods1(rows, w) ==
    [i \in 1..Len(rows) |->
        LET from == IF i >= w THEN i - w + 1 ELSE 1
        IN  Mean(SumCloses(rows, from, i), i - from + 1)]

\* self.market_data['close'].rolling(w).mean() (lines 156-158)
RollingMean(rows, w) ==
    [i \in 1..Len(rows) |->
        IF i >= w THEN Mean(SumCloses(rows, i - w + 1, i), w) ELSE NaN]

\* a < b for two means, or for a price (a mean of one row) and a mean.
Less(a, b) == a.sum * b.n < b.sum * a.n

\* The label of the report, for the trailing means that are defined.
TrendLabel(price, ma_20, ma_50, ma_200) ==
    LET chain == SelectSeq(<<price, ma_20, ma_50, ma_200>>,
                           LAMBDA m : m.defined)
        falling == \A i \in 1..(Len(chain) - 1) : Less(chain[i + 1], chain[i])
        rising == \A i \in 1..(Len(chain) - 1) : Less(chain[i], chain[i + 1])
    IN  IF ~ma_20.defined THEN "insufficient-data"
        ELSE IF falling THEN "bullish"
        ELSE IF rising THEN "bearish"
        ELSE "mixed"

\* The report built from the three rolling means: the trailing value of
\* each, the latest close, the label.
TrendReport(rows, ma_20, ma_50, ma_200) ==
    LET last == Len(rows)
        current_price == Mean(rows[last].close, 1)
    IN  [tag |-> "dict",
         items |-> [ma_20 |-> ma_20[last], ma_50 |-> ma_50[last],
                    ma_200 |-> ma_200[last], current_price |-> current_price,
                    label |-> TrendLabel(current_price, ma_20[last],
                                         ma_50[last], ma_200[last])]]

get_trend_analysis(md) ==
    IF md = <<>> THEN EmptyDict
    ELSE TrendReport(md, RollingMean(md, Window20), RollingMean(md, Window50),
                     RollingMean(md, Window200))

----------------------------------------------------------------------------
\* The state machine.

Worlds == {w \in [Sources -> AlphaPayloads \cup YahooPayloads] :
             \A s \in Sources : w[s] \in PayloadsOf(s)}

\* __init__ (lines 18-20); the endpoints answer what they answer.
Init ==
    /\ market_data = <<>>
    /\ payloads \in Worlds
    /\ op = "init"
    /\ down = {}
    /\ requested = <<>>
    /\ parsed = [s \in Sources |-> NotCalled]
    /\ dfs = <<>>
    /\ merged = NotCalled
    /\ result = None
    /\ raised = "none"
    /\ prev_market_data = <<>>
    /\ lastSuccess = None

\* One call of fetch_data(symbol); the requests to the providers in dn fail.
FetchData(symbol, dn) ==
    \E r \in {fetch_data(symbol, dn, payloads, market_data)} :
        /\ op' = "fetch_data"
        /\ down' = dn
        /\ prev_market_data' = market_data
        /\ market_data' = r.market_data
        /\ requested' = r.requested
        /\ parsed' = r.parsed
        /\ dfs' = r.dfs
        /\ merged' = r.merged
        /\ result' = r.ret
        /\ raised' = r.raised
        /\ lastSuccess' = IF r.raised = "none" /\ r.ret # None THEN r.ret
                          ELSE lastSuccess
        /\ UNCHANGED payloads

\* One call of get_trend_analysis().
TrendAnalysis ==
    /\ op' = "get_trend_analysis"
    /\ result' = get_trend_analysis(market_data)
    /\ raised' = "none"
    /\ prev_market_data' = market_data
    /\ down' = {}
    /\ requested' = <<>>
    /\ parsed' = [s \in Sources |-> NotCalled]
    /\ dfs' = <<>>
    /\ merged' = NotCalled
    /\ UNCHANGED <<market_data, payloads, lastSuccess>>

Next ==
    \/ \E symbol \in Symbols, dn \in SUBSET Sources : FetchData(symbol, dn)
    \/ TrendAnalysis

Spec == Init /\ [][Next]_vars

\* get_trend_analysis over every canonical series of up to MaxBars rows:
\* market_data is a public attribute, and the analysis reads nothing else.
TrendSeries(n, k) ==
    [i \in 1..n |-> NumericRow(i, 1 + ((i * k + (i \div 7)) % 5))]

InitTrend ==
    /\ market_data \in {TrendSeries(n, k) : n \in 0..MaxBars, k \in 1..MaxPattern}
    /\ payloads = [s \in Sources |-> [shape |-> "series", rows |-> <<>>]]
    /\ op = "init"
    /\ down = {}
    /\ requested = <<>>
    /\ parsed = [s \in Sources |-> NotCalled]
    /\ dfs = <<>>
    /\ merged = NotCalled
    /\ result = None
    /\ raised = "none"
    /\ prev_market_data = <<>>
    /\ lastSuccess = None

NextTrend == TrendAnalysis

SpecTrend == InitTrend /\ [][NextTrend]_vars

----------------------------------------------------------------------------
\* Properties.

\* The rows provider s returned in the last cycle's conditions: those of its
\* parser's frame, none when its request failed or its parser raised.
Returned(s) ==
    LET df == ParserRun(s, down, payloads)
    IN  IF IsNonEmptyFrame(df) THEN df.rows ELSE <<>>

\* Provider s failed: its request raised, or its parser did.
Failed(s) == s \in down \/ IsRaise(Parse(s, payloads[s]))

SomeReturned == \E s \in Sources : Returned(s) # <<>>

\* The row for date t of the provider listed first among those returning one.
FirstProviderRow(t) ==
    LET i == CHOOSE k \in 1..Len(data_sources) :
                /\ t \in TsOf(Returned(data_sources[k]))
                /\ \A j \in 1..(k - 1) : t \notin TsOf(Returned(data_sources[j]))
    IN  FirstAt(Returned(data_sources[i]), t)

\* C1: when at least one provider returns a non-empty frame, fetch_data
\* returns a frame whose dates are the union of the dates of all returned
\* rows, each date carrying the row of the provider listed first.
C1_FetchReturnsUnion ==
    (op = "fetch_data" /\ SomeReturned
        /\ \A s \in Sources : AllNumeric(Returned(s))) =>
        /\ IsFrame(result)
        /\ TsOf(result.rows) = UNION {TsOf(Returned(s)) : s \in Sources}
        /\ \A i \in 1..Len(result.rows) :
               result.rows[i] = FirstProviderRow(result.rows[i].ts)

\* C2: when every provider fails or returns an empty frame, fetch_data
\* returns None and market_data is what it was before the call.
C2_NoDataLeavesState ==
    (op = "fetch_data" /\ ~SomeReturned) =>
        /\ result = None
        /\ raised = "none"
        /\ market_data = prev_market_data

\* C2 witness: a cycle in which every request failed has returned None.
C2_Witness ==
    /\ op = "fetch_data"
    /\ down = Sources
    /\ requested = data_sources
    /\ result = None

\* The frames of the providers that returned rows, in configured order.
ReturnedFrames ==
    SelectSeq([i \in 1..Len(data_sources) |-> Returned(data_sources[i])],
              LAMBDA rows : rows # <<>>)

\* C3: a provider's failure never aborts the cycle: every configured
\* provider is still asked, the failed one contributes nothing, and the
\* frames of the others are the ones the cycle goes on with.  (What the
\* cycle then returns for them is the subject of C1.)
C3_FailureNeverAborts ==
    (op = "fetch_data" /\ \E s \in Sources : Failed(s)) =>
        /\ requested = data_sources
        /\ dfs = ReturnedFrames

\* C4: market_data is the initial empty frame or the frame returned by the
\* most recent successful cycle; a cycle that succeeds stores what it
\* returns and a cycle that fails stores nothing.
C4_ReplaceOnly ==
    /\ market_data = IF lastSuccess = None THEN <<>> ELSE lastSuccess.rows
    /\ op = "fetch_data" =>
           IF IsFrame(result) THEN market_data = result.rows
           ELSE market_data = prev_market_data

\* C4 witness: a cycle that had frames in hand and failed left the initial
\* value in place.
C4_Witness ==
    /\ op = "fetch_data"
    /\ dfs # <<>>
    /\ result = None
    /\ lastSuccess = None
    /\ market_data = <<>>

\* C5: the combination step yields a frame strictly ascending by date
\* (hence without duplicate dates), and combining a series with itself
\* yields that series.
C5_ReconciledIsCanonical ==
    (op = "fetch_data" /\ merged # NotCalled) =>
        /\ IsFrame(merged)
        /\ StrictlyAscending(merged.rows)
        /\ (Len(dfs) = 2 /\ dfs[1] = dfs[2] /\ StrictlyAscending(dfs[1]))
               => merged.rows = dfs[1]

\* The payload of s lists exactly one date with a non-numeric field.
OneBadRow(s) ==
    /\ payloads[s].shape = "series"
    /\ Cardinality({i \in 1..Len(payloads[s].rows) :
                        ~payloads[s].rows[i].numeric}) = 1

\* C6: a payload with one non-numeric date parses to the frame of its other
\* dates: that row is dropped, the rest kept.
C6_BadRowDropped ==
    \A s \in Sources :
        (parsed[s] # NotCalled /\ OneBadRow(s)) =>
            /\ IsFrame(parsed[s])
            /\ parsed[s].rows = SelectSeq(payloads[s].rows, LAMBDA r : r.numeric)

\* C7: a payload whose nested field of daily bars is absent or structurally
\* wrong parses to the empty frame, without raising.
C7_AbsentShapeIsEmpty ==
    \A s \in Sources :
        (parsed[s] # NotCalled /\ payloads[s].shape \in {"no_key"} \cup YahooShapes)
            => parsed[s] = EmptyFrame

\* The mean the report holds for window w is the one over the last w closes
\* when the series has w rows, and absent otherwise.
TrailingMeanRight(m, w) ==
    LET n == Len(market_data)
    IN  IF n >= w
            THEN m = Mean(SumCloses(market_data, n - w + 1, n), w)
        ELSE ~m.defined

\* C8 as stated: for every series of n rows the report holds the trailing
\* mean of window w exactly when n >= w, and below 20 rows it holds no mean
\* and the label "insufficient-data".
C8_AsStated ==
    op = "get_trend_analysis" =>
        LET n == Len(market_data)
        IN  /\ result.tag = "dict"
            /\ result.items # <<>>
            /\ TrailingMeanRight(result.items.ma_20, Window20)
            /\ TrailingMeanRight(result.items.ma_50, Window50)
            /\ TrailingMeanRight(result.items.ma_200, Window200)
            /\ n < Window20 => result.items.label = "insufficient-data"

\* C8 amended: the same for every series of at least one row; for the empty
\* series the call returns the empty dict, which holds no label.
C8_TrailingMeans ==
    op = "get_trend_analysis" =>
        LET n == Len(market_data)
        IN  IF n = 0 THEN result = EmptyDict
            ELSE /\ result.tag = "dict"
                 /\ TrailingMeanRight(result.items.ma_20, Window20)
                 /\ TrailingMeanRight(result.items.ma_50, Window50)
                 /\ TrailingMeanRight(result.items.ma_200, Window200)
                 /\ n < Window20 => result.items.label = "insufficient-data"

\* C8 witness: a report over exactly 20 rows holds MA20 and neither MA50
\* nor MA200.
C8_Witness ==
    /\ op = "get_trend_analysis"
    /\ Len(market_data) = Window20
    /\ result.items.ma_20.defined
    /\ ~result.items.ma_50.defined
    /\ ~result.items.ma_200.defined

\* C9: with one provider's well-formed frame as the only element of dfs, the
\* combination step yields that frame, rows and order unchanged.
C9_SingletonRoundTrip ==
    (op = "fetch_data" /\ merged # NotCalled
        /\ Len(dfs) = 1 /\ AllNumeric(dfs[1])) =>
        merged = DataFrame(dfs[1])

====
